---- MODULE Spec2Model ----
(***************************************************************************)
(* A model of the waiter-trait crate: the tick-based timeout engine        *)
(* (TickWaiter, TimedTickWaiter and their status objects), the std         *)
(* wall-clock waiter (StdWaiter) and the std tick source (Instant).        *)
(*                                                                         *)
(* Integer widths.  TLC's integers are 32-bit signed, so the two counter   *)
(* widths of the crate are modelled by a scaled pair: the narrow width     *)
(* ("u32") holds 0..U32_MAX and the wide width ("u64") holds 0..U64_MAX    *)
(* with U64_MAX + 1 = (U32_MAX + 1)^2, exactly as 2^64 = (2^32)^2.  Every  *)
(* overflow check, saturation and truncation of the code is kept, against  *)
(* these maxima.  The unit divisors (1_000_000, 1_000) keep their values.  *)
(***************************************************************************)
EXTENDS Integers, Sequences, FiniteSets

\* ------------------------------------------------------------- widths
\* Largest value of the narrow counter width (u32::MAX in the crate).
U32_MAX == 32767

\* Largest value of the wide counter width (u64::MAX in the crate).
U64_MAX == (U32_MAX + 1) * (U32_MAX + 1) - 1

\* The code's widths, by the name of the Num implementation.
MaxOf(N) == IF N = "u32" THEN U32_MAX ELSE U64_MAX

\* ------------------------------------------------- program constants
\* frequency divisor of the ns/us constructors and of TimedTickWaiter
MHZ == 1000000

\* frequency divisor of the ms constructor, and the ns -> us div_ceil
KILO == 1000

\* ----------------------------------------------------- pure helpers
\* The value a panicking computation yields in this model.
PANIC == -1

\* u32::checked_mul / u64::checked_mul followed by unwrap(): the product,
\* or PANIC when it does not fit the width.  (The product is only formed
\* when it fits.)
checked_mul(a, b, max) ==
    IF b = 0 THEN 0
    ELSE IF a <= max \div b THEN a * b
    ELSE PANIC

\* A division that rounds down instead.
div_floor(a, b) == a \div b

\* u64::div_ceil: quotient, plus one when the remainder is positive.
div_ceil(a, b) ==
    LET d == a \div b
        r == a % b
    IN  IF r > 0 THEN d + 1 ELSE d

\* An addition that wraps around at the width instead.
wrapping_add(a, v, max) == (a + v) % (max + 1)

\* u32::saturating_add / u64::saturating_add at width maximum max.
saturating_add(a, v, max) ==
    IF v > max - a THEN max ELSE a + v

\* Num::add_u32 for the two implementations (u32, u64).
add_u32(N, a, v) == saturating_add(a, v, MaxOf(N))

\* ------------------------------------------------------ constructors
\* Each constructor yields the waiter's record, or PANIC when one of its
\* assertions or unwraps fails.
TickWaiterOf(N, tt) ==
    [kind |-> "TickWaiter", N |-> N, timeout_tick |-> tt, frequency |-> 0]

\* What a constructor yields when it panics.
PanicWaiter ==
    [kind |-> "panic", N |-> "u32", timeout_tick |-> 0, frequency |-> 0]

\* No waiter has been constructed yet.
NoWaiter ==
    [kind |-> "none", N |-> "u32", timeout_tick |-> 0, frequency |-> 0]

\* TickWaiter::ns
ns(timeout, frequency) ==
    IF frequency % MHZ /= 0 THEN PanicWaiter
    ELSE LET m == checked_mul(timeout, frequency \div MHZ, U64_MAX)
         IN  IF m = PANIC THEN PanicWaiter
             ELSE LET timeout_tick == div_ceil(m, KILO)
                  IN  IF timeout_tick <= U32_MAX
                      THEN TickWaiterOf("u32", timeout_tick)
                      ELSE PanicWaiter

\* A us constructor whose multiplication wraps around at the width.
us_wrapping(timeout, frequency) ==
    IF frequency % MHZ /= 0 THEN PanicWaiter
    ELSE TickWaiterOf("u32",
                      (timeout * (frequency \div MHZ)) % (U32_MAX + 1))

\* TickWaiter::us
us(timeout, frequency) ==
    IF frequency % MHZ /= 0 THEN PanicWaiter
    ELSE LET m == checked_mul(timeout, frequency \div MHZ, U32_MAX)
         IN  IF m = PANIC THEN PanicWaiter ELSE TickWaiterOf("u32", m)

\* An ms constructor without the divisibility assertion.
ms_unasserted(timeout, frequency) ==
    LET m == checked_mul(timeout, frequency \div KILO, U32_MAX)
    IN  IF m = PANIC THEN PanicWaiter ELSE TickWaiterOf("u32", m)

\* TickWaiter::ms
ms(timeout, frequency) ==
    IF frequency % KILO /= 0 THEN PanicWaiter
    ELSE LET m == checked_mul(timeout, frequency \div KILO, U32_MAX)
         IN  IF m = PANIC THEN PanicWaiter ELSE TickWaiterOf("u32", m)

\* TickWaiter::ns_u64
ns_u64(timeout, frequency) ==
    IF frequency % MHZ /= 0 THEN PanicWaiter
    ELSE LET m == checked_mul(timeout, frequency \div MHZ, U64_MAX)
         IN  IF m = PANIC THEN PanicWaiter
             ELSE TickWaiterOf("u64", div_ceil(m, KILO))

\* TickWaiter::us_u64
us_u64(timeout, frequency) ==
    IF frequency % MHZ /= 0 THEN PanicWaiter
    ELSE LET m == checked_mul(timeout, frequency \div MHZ, U64_MAX)
         IN  IF m = PANIC THEN PanicWaiter ELSE TickWaiterOf("u64", m)

\* TimedTickWaiter::new
TimedTickWaiter_new(frequency) ==
    IF frequency % MHZ /= 0 THEN PanicWaiter
    ELSE [kind |-> "TimedTickWaiter", N |-> "u32", timeout_tick |-> 0,
          frequency |-> frequency]

\* TickDelay::new: the delay keeps the frequency (no assertion is made);
\* timeout_tick is the threshold of the waiter local to a delay_ns call.
TickDelay_new(frequency) ==
    [kind |-> "TickDelay", N |-> "u32", timeout_tick |-> 0,
     frequency |-> frequency]

\* StdWaiter::new (timeout is a Duration, counted in the clock's unit)
StdWaiter_new(timeout) ==
    [kind |-> "StdWaiter", N |-> "u64", timeout_tick |-> timeout,
     frequency |-> 0]

\* The five TickWaiter constructors by name.
Ctors == {"ns", "us", "ms", "ns_u64", "us_u64"}

Construct(ctor, timeout, frequency) ==
    CASE ctor = "ns"     -> ns(timeout, frequency)
      [] ctor = "us"     -> us(timeout, frequency)
      [] ctor = "ms"     -> ms(timeout, frequency)
      [] ctor = "ns_u64" -> ns_u64(timeout, frequency)
      [] ctor = "us_u64" -> us_u64(timeout, frequency)

\* -------------------------------------------------------- tick source
\* impl TickInstant for Instant: an Instant is a count of nanoseconds and
\* tick_since is duration_since(earlier).as_nanos() as u32; the cast keeps
\* the low bits of the narrow width.
tick_since(self, earlier) ==
    (IF self >= earlier THEN self - earlier ELSE 0) % (U32_MAX + 1)

\* -------------------------------------------------------------- bounds
\* The instants the clock takes: at most one long gap (of U32_MAX or
\* U32_MAX + 1 ticks) and ClockSlack ticks in short steps.
ClockSlack == 3

LongGaps == {0, 1}

\* The scenario of a 10 us timeout at 1 GHz runs for this many
\* microseconds, in steps of whole microseconds (of KILO ticks each).
ScenarioMicros == 12

ScenarioSteps == {1 * KILO, 9 * KILO}

\* The scenario of a StdWaiter with a 500_000 us timeout and a StdInterval
\* that sleeps 260_000 us (the clock counting microseconds), for at most
\* StdScenarioPolls timeout() calls, each of which may sleep once.
StdScenarioTimeout == 500 * KILO

StdScenarioSleep == 260 * KILO

StdScenarioPolls == 8

ClockOK(c) ==
    \/ c % U32_MAX <= ClockSlack /\ c \div U32_MAX \in LongGaps
    \/ c % KILO = 0 /\ c \div KILO <= ScenarioMicros
    \/ c % StdScenarioSleep = 0 /\ c \div StdScenarioSleep <= StdScenarioPolls

\* timeout() calls made in one behaviour
MaxPolls == 3

\* The slots of the status objects started from the waiter.
Slots == {1}

\* Tick amounts by which the clock advances between operations.
AdvanceSteps == {1, 2, U32_MAX, U32_MAX + 1}

\* Duration arguments (the Duration's own tick count) of the constructors
\* and of TimedTickWaiter::start: 32-bit and 64-bit durations.
Durations32 == {0, 1, 2, 1001, U32_MAX}

Durations64 == Durations32 \cup {U64_MAX}

DurationsOf(ctor) ==
    IF ctor \in {"ns_u64", "us_u64"} THEN Durations64 ELSE Durations32

\* Tick frequencies (Hz) given to the constructors.
Frequencies ==
    {0, 1500, 1500000, MHZ, 2 * MHZ, 1001 * MHZ}

\* Interval strategies: 0 is NonInterval (or StdInterval's yield), a
\* positive value is a StdInterval that sleeps that many ticks.
Intervals == {0, 2}

\* --------------------------------------------------------------- state
VARIABLES
    waiter,     \* the waiter: its configuration record, NoWaiter before
    interval,   \* the waiter's interval strategy (see Intervals)
    st,         \* the status objects started from the waiter, by slot
    clock,      \* the tick source's current instant
    panicked,   \* an assertion, unwrap or arithmetic check has failed
    out,        \* the last operation: its name, arguments and results
    hist        \* observation of each status object since (re)start

vars == <<waiter, interval, st, clock, panicked, out, hist>>

\* A slot without a status object.
NoStatus ==
    [live |-> FALSE, tick |-> 0, elapsed_tick |-> 0, timeout_tick |-> 0]

\* What has been observed of a status object: since its start() or last
\* restart(), its polls (n), the ticks each read and what it returned
\* (log), the sum of the tick_since values they read (seen), those that
\* returned true (fired) and whether an accumulation
\* saturated (sat); since its start(), whether it was restarted and the
\* accumulator value its last restart() discarded (dropped), its polls,
\* those that returned false and the interval() invocations made for it;
\* the clock's instant at its start() or last restart() (at).  For a
\* status object of a TimedTickWaiter started with duration d: the waiter
\* TickWaiter::us(d, .., frequency) (twinw) and what its start(), then the
\* same calls at the same instants on the status object started from it,
\* have yielded last (twin).
NoHist ==
    [seen |-> 0, fired |-> 0, sat |-> FALSE, n |-> 0, restarted |-> FALSE,
     dropped |-> 0, polls |-> 0, falses |-> 0, ivls |-> 0, log |-> <<>>,
     at |-> 0, twinw |-> NoWaiter,
     twin |-> [self |-> NoStatus, ret |-> FALSE, ivl |-> 0,
               panic |-> FALSE]]

Out(op, s, ret, ivl, ts, ctor, d, f) ==
    [op |-> op, s |-> s, ret |-> ret, ivl |-> ivl, ts |-> ts,
     ctor |-> ctor, d |-> d, f |-> f]

Init ==
    /\ waiter = NoWaiter
    /\ interval = 0
    /\ st = [s \in Slots |-> NoStatus]
    /\ clock = 0
    /\ panicked = FALSE
    /\ out = Out("init", 0, FALSE, 0, 0, "none", 0, 0)
    /\ hist = [s \in Slots |-> NoHist]

\* ------------------------------------------------------- constructors
\* One of TickWaiter::ns / us / ms / ns_u64 / us_u64.
NewTickWaiter(ctor, d, f, i) ==
    /\ ~panicked /\ waiter = NoWaiter
    /\ LET w == Construct(ctor, d, f)
       IN  IF w = PanicWaiter
           THEN panicked' = TRUE /\ UNCHANGED <<waiter, interval>>
           ELSE waiter' = w /\ interval' = i /\ UNCHANGED panicked
    /\ out' = Out("new", 0, FALSE, 0, 0, ctor, d, f)
    /\ UNCHANGED <<st, clock, hist>>

\* TimedTickWaiter::new.
NewTimedTickWaiter(f, i) ==
    /\ ~panicked /\ waiter = NoWaiter
    /\ LET w == TimedTickWaiter_new(f)
       IN  IF w = PanicWaiter
           THEN panicked' = TRUE /\ UNCHANGED <<waiter, interval>>
           ELSE waiter' = w /\ interval' = i /\ UNCHANGED panicked
    /\ out' = Out("new", 0, FALSE, 0, 0, "timed", 0, f)
    /\ UNCHANGED <<st, clock, hist>>

\* StdWaiter::new.
NewStdWaiter(d, i) ==
    /\ ~panicked /\ waiter = NoWaiter
    /\ waiter' = StdWaiter_new(d)
    /\ interval' = i
    /\ out' = Out("new", 0, FALSE, 0, 0, "std", d, 0)
    /\ UNCHANGED <<st, clock, panicked, hist>>

\* ------------------------------------------------------------ handlers
\* Each handler is a function of the status object (self), what it borrows
\* and the instant now() returns; it yields the status object afterwards,
\* the value returned, the interval() invocations made and whether it
\* panicked.
Res(self, ret, ivl, panic) ==
    [self |-> self, ret |-> ret, ivl |-> ivl, panic |-> panic]

\* `self.elapsed_tick -= timeout_tick`: an unsigned subtraction, which
\* panics (overflow check) when the result would be negative.
sub_assign(a, b) == IF a >= b THEN a - b ELSE PANIC

\* TickWaiter::start
TickWaiter_start(now) ==
    Res([live |-> TRUE, tick |-> now, elapsed_tick |-> 0,
         timeout_tick |-> 0], FALSE, 0, FALSE)

\* A start() whose threshold is the duration's tick count, unscaled.
TimedTickWaiter_start_unscaled(w, timeout, now) ==
    Res([live |-> TRUE, tick |-> now, elapsed_tick |-> 0,
         timeout_tick |-> timeout], FALSE, 0, FALSE)

\* TimedTickWaiter::start
TimedTickWaiter_start(w, timeout, now) ==
    LET m == checked_mul(timeout, w.frequency \div MHZ, U32_MAX)
    IN  IF m = PANIC THEN Res(NoStatus, FALSE, 0, TRUE)
        ELSE Res([live |-> TRUE, tick |-> now, elapsed_tick |-> 0,
                  timeout_tick |-> m], FALSE, 0, FALSE)

\* StdWaiter::start (start_time is kept in the field tick)
StdWaiter_start(now) ==
    Res([live |-> TRUE, tick |-> now, elapsed_tick |-> 0,
         timeout_tick |-> 0], FALSE, 0, FALSE)

\* A timeout() that resets the accumulator to zero when it times out.
TickWaiterStatus_timeout_reset(self, w, now) ==
    LET elapsed_tick == add_u32(w.N, self.elapsed_tick,
                                tick_since(now, self.tick))
    IN  IF elapsed_tick >= w.timeout_tick
        THEN Res([self EXCEPT !.elapsed_tick = 0, !.tick = now],
                 TRUE, 0, FALSE)
        ELSE Res([self EXCEPT !.elapsed_tick = elapsed_tick, !.tick = now],
                 FALSE, 1, FALSE)

\* A timeout() that compares with > instead of >=.
TickWaiterStatus_timeout_gt(self, w, now) ==
    LET elapsed_tick == add_u32(w.N, self.elapsed_tick,
                                tick_since(now, self.tick))
    IN  IF elapsed_tick > w.timeout_tick
        THEN Res([self EXCEPT !.elapsed_tick = elapsed_tick - w.timeout_tick,
                              !.tick = now], TRUE, 0, FALSE)
        ELSE Res([self EXCEPT !.elapsed_tick = elapsed_tick, !.tick = now],
                 FALSE, 1, FALSE)

\* A timeout() that stores the accumulated ticks only when it times out.
TickWaiterStatus_timeout_forget(self, w, now) ==
    LET elapsed_tick == add_u32(w.N, self.elapsed_tick,
                                tick_since(now, self.tick))
    IN  IF elapsed_tick >= w.timeout_tick
        THEN Res([self EXCEPT !.elapsed_tick = elapsed_tick - w.timeout_tick,
                              !.tick = now], TRUE, 0, FALSE)
        ELSE Res([self EXCEPT !.tick = now], FALSE, 1, FALSE)

\* A timeout() that accumulates the raw instant instead of the ticks
\* elapsed since the last-seen instant.
TickWaiterStatus_timeout_raw(self, w, now) ==
    LET elapsed_tick == add_u32(w.N, self.elapsed_tick, now % (U32_MAX + 1))
    IN  IF elapsed_tick >= w.timeout_tick
        THEN Res([self EXCEPT !.elapsed_tick = elapsed_tick - w.timeout_tick,
                              !.tick = now], TRUE, 0, FALSE)
        ELSE Res([self EXCEPT !.elapsed_tick = elapsed_tick, !.tick = now],
                 FALSE, 1, FALSE)

\* TickWaiterStatus::timeout
TickWaiterStatus_timeout(self, w, now) ==
    LET elapsed_tick == add_u32(w.N, self.elapsed_tick,
                                tick_since(now, self.tick))
    IN  IF elapsed_tick >= w.timeout_tick
        THEN LET e == sub_assign(elapsed_tick, w.timeout_tick)
             IN  IF e = PANIC THEN Res(self, FALSE, 0, TRUE)
                 ELSE Res([self EXCEPT !.elapsed_tick = e, !.tick = now],
                          TRUE, 0, FALSE)
        ELSE Res([self EXCEPT !.elapsed_tick = elapsed_tick, !.tick = now],
                 FALSE, 1, FALSE)

\* A restart() that keeps the accumulator.
TickWaiterStatus_restart_keep(self, now) ==
    Res([self EXCEPT !.tick = now], FALSE, 0, FALSE)

\* TickWaiterStatus::restart
TickWaiterStatus_restart(self, now) ==
    Res([self EXCEPT !.tick = now, !.elapsed_tick = 0], FALSE, 0, FALSE)

\* A timeout() that resets the accumulator to zero when it times out.
TimedTickWaiterStatus_timeout_reset(self, now) ==
    LET elapsed_tick == add_u32("u32", self.elapsed_tick,
                                tick_since(now, self.tick))
    IN  IF elapsed_tick >= self.timeout_tick
        THEN Res([self EXCEPT !.elapsed_tick = 0, !.tick = now],
                 TRUE, 0, FALSE)
        ELSE Res([self EXCEPT !.elapsed_tick = elapsed_tick, !.tick = now],
                 FALSE, 1, FALSE)

\* TimedTickWaiterStatus::timeout
TimedTickWaiterStatus_timeout(self, now) ==
    LET elapsed_tick == add_u32("u32", self.elapsed_tick,
                                tick_since(now, self.tick))
    IN  IF elapsed_tick >= self.timeout_tick
        THEN LET e == sub_assign(elapsed_tick, self.timeout_tick)
             IN  IF e = PANIC THEN Res(self, FALSE, 0, TRUE)
                 ELSE Res([self EXCEPT !.elapsed_tick = e, !.tick = now],
                          TRUE, 0, FALSE)
        ELSE Res([self EXCEPT !.elapsed_tick = elapsed_tick, !.tick = now],
                 FALSE, 1, FALSE)

\* A restart() that keeps the accumulator.
TimedTickWaiterStatus_restart_keep(self, now) ==
    Res([self EXCEPT !.tick = now], FALSE, 0, FALSE)

\* TimedTickWaiterStatus::restart
TimedTickWaiterStatus_restart(self, now) ==
    Res([self EXCEPT !.tick = now, !.elapsed_tick = 0], FALSE, 0, FALSE)

\* A timeout() that takes a new start time when it times out.
StdWaiterStatus_timeout_rearm(self, w, now) ==
    IF now - self.tick >= w.timeout_tick
    THEN Res([self EXCEPT !.tick = now], TRUE, 0, FALSE)
    ELSE Res(self, FALSE, 1, FALSE)

\* A timeout() that runs the interval strategy whatever it returns.
StdWaiterStatus_timeout_interval(self, w, now) ==
    IF now - self.tick >= w.timeout_tick
    THEN Res(self, TRUE, 1, FALSE)
    ELSE Res(self, FALSE, 1, FALSE)

\* StdWaiterStatus::timeout (Instant::elapsed is now - start_time)
StdWaiterStatus_timeout(self, w, now) ==
    IF now - self.tick >= w.timeout_tick
    THEN Res(self, TRUE, 0, FALSE)
    ELSE Res(self, FALSE, 1, FALSE)

\* StdWaiterStatus::restart
StdWaiterStatus_restart(self, now) ==
    Res([self EXCEPT !.tick = now], FALSE, 0, FALSE)

\* The threshold a tick status object compares against: the waiter's for
\* a TickWaiterStatus, its own for a TimedTickWaiterStatus.
Threshold(s) ==
    IF waiter.kind = "TimedTickWaiter" THEN st[s].timeout_tick
    ELSE waiter.timeout_tick

IsTick == waiter.kind \in {"TickWaiter", "TimedTickWaiter"}

\* The width of a status object's accumulator.
Width == IF waiter.kind = "TickWaiter" THEN waiter.N ELSE "u32"

\* ---------------------------------------------------------- operations
\* Waiter::start on a TickWaiter or a StdWaiter.
Start(s) ==
    /\ ~panicked /\ waiter.kind \in {"TickWaiter", "StdWaiter"}
    /\ ~st[s].live
    /\ LET r == IF waiter.kind = "TickWaiter" THEN TickWaiter_start(clock)
                ELSE StdWaiter_start(clock)
       IN  /\ st' = [st EXCEPT ![s] = r.self]
           /\ out' = Out("start", s, r.ret, r.ivl, 0, "none", 0, 0)
    /\ hist' = [hist EXCEPT ![s] = [NoHist EXCEPT !.ivls = out'.ivl,
                                                  !.at = clock]]
    /\ UNCHANGED <<waiter, interval, clock, panicked>>

\* TimedWaiter::start on a TimedTickWaiter.
StartTimed(s, d) ==
    /\ ~panicked /\ waiter.kind = "TimedTickWaiter"
    /\ ~st[s].live
    /\ LET r == TimedTickWaiter_start(waiter, d, clock)
       IN  /\ st' = [st EXCEPT ![s] = r.self]
           /\ panicked' = r.panic
           /\ out' = Out("start", s, r.ret, r.ivl, 0, "timed", d, 0)
    /\ hist' = [hist EXCEPT ![s] =
                  [NoHist EXCEPT !.ivls = out'.ivl,
                                 !.at = clock,
                                 !.twinw = us(d, waiter.frequency),
                                 !.twin = TickWaiter_start(clock)]]
    /\ UNCHANGED <<waiter, interval, clock>>

\* What WaiterStatus::timeout does on status object s at this instant.
TimeoutOf(s) ==
    CASE waiter.kind = "TickWaiter" ->
           TickWaiterStatus_timeout(st[s], waiter, clock)
      [] waiter.kind = "TimedTickWaiter" ->
           TimedTickWaiterStatus_timeout(st[s], clock)
      [] waiter.kind = "StdWaiter" ->
           StdWaiterStatus_timeout(st[s], waiter, clock)

\* The ticks a poll of status object s reads from the tick source now.
TicksNow(s) == IF IsTick THEN tick_since(clock, st[s].tick) ELSE 0

\* Status objects whose fields are one shared state: a call on one status
\* object writes the fields of every live one.
Put_shared(s, self) ==
    [t \in DOMAIN st |-> IF st[t].live \/ t = s THEN self ELSE st[t]]

\* `&mut self`: a handler's assignments go to the fields of the status
\* object it was called on.
Put(s, self) == [st EXCEPT ![s] = self]

\* WaiterStatus::timeout on status object s: the program's part.  Each
\* interval() invocation runs the interval strategy, whose sleep advances
\* the clock.
Poll(s) ==
    /\ ~panicked /\ st[s].live /\ waiter.kind /= "TickDelay"
    /\ LET r == TimeoutOf(s)
       IN  /\ ClockOK(clock + r.ivl * interval)
           /\ st' = Put(s, r.self)
           /\ panicked' = r.panic
           /\ clock' = clock + r.ivl * interval
           /\ out' = Out("timeout", s, r.ret, r.ivl, TicksNow(s),
                         "none", 0, 0)
    /\ UNCHANGED <<waiter, interval>>

\* The observation of a poll of status object s.
Observe(s) ==
    LET r == TimeoutOf(s)
        h == hist[s]
    IN  hist' = [hist EXCEPT ![s] =
           [seen   |-> h.seen + TicksNow(s),
            fired  |-> h.fired + (IF r.ret THEN 1 ELSE 0),
            sat    |-> h.sat \/ (IsTick /\
                          TicksNow(s) > MaxOf(Width) - st[s].elapsed_tick),
            n      |-> h.n + 1,
            restarted |-> h.restarted,
            dropped |-> h.dropped,
            polls  |-> h.polls + 1,
            falses |-> h.falses + (IF r.panic \/ r.ret THEN 0 ELSE 1),
            ivls   |-> h.ivls + r.ivl,
            log    |-> Append(h.log, [ts |-> TicksNow(s), ret |-> r.ret]),
            at     |-> h.at,
            twinw  |-> h.twinw,
            twin   |-> IF waiter.kind = "TimedTickWaiter"
                       THEN TickWaiterStatus_timeout(h.twin.self, h.twinw,
                                                     clock)
                       ELSE h.twin]]

\* WaiterStatus::timeout on status object s, observed.
Timeout(s) ==
    /\ hist[s].polls < MaxPolls
    /\ Poll(s)
    /\ Observe(s)

\* WaiterStatus::restart on status object s.
Restart(s) ==
    /\ ~panicked /\ st[s].live /\ waiter.kind /= "TickDelay"
    /\ LET r == CASE waiter.kind = "TickWaiter" ->
                       TickWaiterStatus_restart(st[s], clock)
                  [] waiter.kind = "TimedTickWaiter" ->
                       TimedTickWaiterStatus_restart(st[s], clock)
                  [] waiter.kind = "StdWaiter" ->
                       StdWaiterStatus_restart(st[s], clock)
       IN  /\ st' = Put(s, r.self)
           /\ out' = Out("restart", s, r.ret, r.ivl, 0, "none", 0, 0)
    /\ hist' = [hist EXCEPT ![s] =
                  [NoHist EXCEPT !.restarted = TRUE,
                                 !.dropped = st[s].elapsed_tick,
                                 !.polls = hist[s].polls,
                                 !.falses = hist[s].falses,
                                 !.ivls = hist[s].ivls +
                                            out'.ivl,
                                 !.at = clock,
                                 !.twinw = hist[s].twinw,
                                 !.twin =
                                    IF waiter.kind = "TimedTickWaiter"
                                    THEN TickWaiterStatus_restart(
                                             hist[s].twin.self, clock)
                                    ELSE hist[s].twin]]
    /\ UNCHANGED <<waiter, interval, clock, panicked>>

\* ------------------------------------------------------------ TickDelay
\* TickDelay::new.
NewTickDelay(f) ==
    /\ ~panicked /\ waiter = NoWaiter
    /\ waiter' = TickDelay_new(f)
    /\ interval' = 0
    /\ out' = Out("new", 0, FALSE, 0, 0, "delay_ns", 0, f)
    /\ UNCHANGED <<st, clock, panicked, hist>>

\* DelayNs::delay_ns up to its loop: the local waiter
\* TickWaiter::ns(ns, NonInterval, frequency) and its start().
DelayBegin(s, d) ==
    /\ ~panicked /\ waiter.kind = "TickDelay" /\ out.op = "new"
    /\ LET w == ns(d, waiter.frequency)
           r == TickWaiter_start(clock)
       IN  IF w = PanicWaiter
           THEN panicked' = TRUE /\ UNCHANGED <<waiter, st, hist>>
           ELSE /\ waiter' = [waiter EXCEPT !.timeout_tick = w.timeout_tick]
                /\ st' = [st EXCEPT ![s] = r.self]
                /\ hist' = [hist EXCEPT ![s] = [NoHist EXCEPT !.at = clock]]
                /\ UNCHANGED panicked
    /\ out' = Out("delay_ns", s, FALSE, 0, 0, "delay_ns", d, waiter.frequency)
    /\ UNCHANGED <<interval, clock>>

\* A loop that is left after its first poll, whatever it returned.
delay_ns_once(ret) == FALSE

\* `while !t.timeout() {}`: whether the loop goes on after a poll.
delay_ns_while(ret) == ~ret

\* One turn of the loop of delay_ns: a poll of the local status object,
\* after which the call returns or goes on polling.  The counts observed
\* of the polls stop at MaxPolls.
DelayPoll(s) ==
    /\ ~panicked /\ waiter.kind = "TickDelay" /\ st[s].live
    /\ out.op \in {"delay_ns", "timeout"}
    /\ LET r  == TickWaiterStatus_timeout(st[s], waiter, clock)
           ts == tick_since(clock, st[s].tick)
           h  == hist[s]
       IN  /\ st' = [st EXCEPT ![s] = r.self]
           /\ panicked' = r.panic
           /\ out' = Out(IF delay_ns_while(r.ret) THEN "timeout"
                         ELSE "return",
                         s, r.ret, r.ivl, ts, "delay_ns", out.d, out.f)
           /\ hist' = [hist EXCEPT ![s] =
                 [h EXCEPT !.seen = @ + ts,
                           !.fired = @ + (IF r.ret THEN 1 ELSE 0),
                           !.polls = IF @ < MaxPolls THEN @ + 1 ELSE @,
                           !.falses = IF @ < MaxPolls
                                      THEN @ + (IF r.ret THEN 0 ELSE 1)
                                      ELSE @,
                           !.ivls = IF @ < MaxPolls THEN @ + r.ivl ELSE @]]
    /\ UNCHANGED <<waiter, interval, clock>>

\* The tick source advances by d ticks.
Advance(d) ==
    /\ ~panicked
    /\ ClockOK(clock + d)
    /\ clock' = clock + d
    /\ UNCHANGED <<waiter, interval, st, panicked, out, hist>>

Next ==
    \/ \E c \in Ctors, f \in Frequencies, i \in Intervals :
          \E d \in DurationsOf(c) : NewTickWaiter(c, d, f, i)
    \/ \E f \in Frequencies, i \in Intervals : NewTimedTickWaiter(f, i)
    \/ \E d \in Durations64, i \in Intervals : NewStdWaiter(d, i)
    \/ \E s \in Slots : Start(s)
    \/ \E s \in Slots, d \in Durations32 : StartTimed(s, d)
    \/ \E s \in Slots : Timeout(s)
    \/ \E s \in Slots : Restart(s)
    \/ \E f \in Frequencies : NewTickDelay(f)
    \/ \E s \in Slots, d \in Durations32 : DelayBegin(s, d)
    \/ \E s \in Slots : DelayPoll(s)
    \/ \E d \in AdvanceSteps : Advance(d)

Spec == Init /\ [][Next]_vars

\* ------------------------------------------------- the 1 GHz scenario
\* TickWaiter::us(10 us, .., 1_000_000_000) with a NonInterval: threshold
\* 10_000 ticks of 1 ns; the clock advances by 1 us or 9 us at a time.
ScenarioNext ==
    \/ NewTickWaiter("us", 10, 1000 * MHZ, 0)
    \/ \E s \in Slots : Start(s)
    \/ \E s \in Slots : Timeout(s)
    \/ \E s \in Slots : Restart(s)
    \/ \E d \in ScenarioSteps : Advance(d)

ScenarioSpec == Init /\ [][ScenarioNext]_vars

\* ------------------------------------------------ the StdWaiter runs
\* A StdWaiter with a short timeout, polled while the clock advances in
\* short steps; or the StdWaiter of the 500_000 us scenario, whose clock
\* advances by the sleeps of its interval strategy.
StdTimeouts == {0, 1, 2, StdScenarioTimeout}

StdIntervals == {0, 2, StdScenarioSleep}

StdTimeout(s) ==
    /\ waiter.kind = "StdWaiter"
    /\ hist[s].polls < StdScenarioPolls
    /\ Poll(s)
    /\ Observe(s)

StdNext ==
    \/ \E d \in StdTimeouts, i \in StdIntervals : NewStdWaiter(d, i)
    \/ \E s \in Slots : Start(s)
    \/ \E s \in Slots : StdTimeout(s)
    \/ \E s \in Slots : Restart(s)
    \/ \E d \in {1, 2} : Advance(d)

StdSpec == Init /\ [][StdNext]_vars

\* ------------------------------------------------- the polling loop
\* A TickWaiter status object polled repeatedly, without restart(), until
\* it reports "timed out", while the tick source keeps advancing in short
\* steps.  Thresholds are those the clock can reach within ClockSlack.
LivePoll(s) ==
    /\ waiter.kind = "TickWaiter"
    /\ ~(out.op = "timeout" /\ out.ret)
    /\ Poll(s)
    /\ UNCHANGED hist

LiveTick ==
    /\ \E s \in Slots : st[s].live
    /\ \E d \in {1, 2} : Advance(d)

LiveNext ==
    \/ \E c \in Ctors, f \in Frequencies, i \in Intervals :
          \E d \in DurationsOf(c) :
             /\ Construct(c, d, f).timeout_tick <= ClockSlack
             /\ NewTickWaiter(c, d, f, i)
    \/ \E s \in Slots : Start(s)
    \/ \E s \in Slots : LivePoll(s)
    \/ LiveTick

LiveSpec ==
    /\ Init /\ [][LiveNext]_vars
    /\ WF_vars(LiveTick)
    /\ \A s \in Slots : WF_vars(LivePoll(s))

\* ------------------------------------------- two status objects
\* Two status objects started from one waiter, polled and restarted in any
\* order while the clock advances in short steps.
PairSlots == {1, 2}

PairInit ==
    /\ waiter = NoWaiter
    /\ interval = 0
    /\ st = [s \in PairSlots |-> NoStatus]
    /\ clock = 0
    /\ panicked = FALSE
    /\ out = Out("init", 0, FALSE, 0, 0, "none", 0, 0)
    /\ hist = [s \in PairSlots |-> NoHist]

\* timeout() on status object s, while the two status objects have been
\* polled fewer than MaxPolls times together.
PairTimeout(s) ==
    /\ hist[1].polls + hist[2].polls < MaxPolls
    /\ Poll(s)
    /\ Observe(s)

PairNext ==
    \/ \E i \in Intervals : NewTickWaiter("us", 2, MHZ, i)
    \/ NewTimedTickWaiter(MHZ, 0)
    \/ NewStdWaiter(2, 0)
    \/ \E s \in PairSlots : Start(s)
    \/ \E s \in PairSlots, d \in {1, 2} : StartTimed(s, d)
    \/ \E s \in PairSlots : PairTimeout(s)
    \/ \E s \in PairSlots : Restart(s)
    \/ \E d \in {1, 2} : Advance(d)

PairSpec == PairInit /\ [][PairNext]_vars

\* ------------------------------------------------- one delay_ns call
\* A TickDelay whose delay_ns is called once, with a threshold that the
\* clock can reach within ClockSlack, while the tick source advances in
\* short steps; the call may come after a long time.
DelayNext ==
    \/ \E f \in Frequencies : NewTickDelay(f)
    \/ waiter = NoWaiter /\ Advance(U32_MAX)
    \/ \E s \in Slots, d \in Durations32 :
          /\ ns(d, waiter.frequency).timeout_tick <= ClockSlack
          /\ DelayBegin(s, d)
    \/ \E s \in Slots : DelayPoll(s)
    \/ LiveTick

DelaySpec ==
    /\ Init /\ [][DelayNext]_vars
    /\ WF_vars(LiveTick)
    /\ \A s \in Slots : WF_vars(DelayPoll(s))

\* ============================================================== claims
\* The status object the claims below speak of.
S == CHOOSE s \in Slots : TRUE

RECURSIVE GCD(_, _)
GCD(a, b) == IF b = 0 THEN a ELSE GCD(b, a % b)

\* unit_scale of a constructor: 10^9 for ns, 10^6 for us, 10^3 for ms.
UnitScale(ctor) ==
    CASE ctor \in {"ns", "ns_u64"} -> MHZ * KILO
      [] ctor \in {"us", "us_u64"} -> MHZ
      [] ctor = "ms"               -> KILO

\* ceil(d * f / scale), on the fraction f / scale in lowest terms.
CeilMulDiv(d, f, scale) ==
    LET g   == GCD(scale, f)
        num == f \div g
        den == scale \div g
    IN  (d * num + den - 1) \div den

\* The last operation was a TickWaiter constructor, and it returned.
Constructed == out.op = "new" /\ out.ctor \in Ctors /\ ~panicked

\* C1 (as stated): a constructor that returns stores the threshold
\* ceil(duration * frequency / unit_scale), and that threshold is not zero
\* when the duration is strictly positive.
C1_Original ==
    Constructed =>
        /\ waiter.timeout_tick = CeilMulDiv(out.d, out.f, UnitScale(out.ctor))
        /\ (out.d > 0 => waiter.timeout_tick > 0)

\* C1 (amended): a constructor that returns stores the threshold
\* ceil(duration * frequency / unit_scale), and that threshold is not zero
\* when the duration and the frequency are both strictly positive.
C1_Threshold ==
    Constructed =>
        /\ waiter.timeout_tick = CeilMulDiv(out.d, out.f, UnitScale(out.ctor))
        /\ (out.d > 0 /\ out.f > 0 => waiter.timeout_tick > 0)

\* C1 witness: ns(1001 ns, 2 MHz) returned, with threshold 3 = ceil(2.002).
C1_Witness ==
    /\ Constructed /\ out.ctor = "ns" /\ out.d = 1001 /\ out.f = 2 * MHZ
    /\ waiter.timeout_tick = 3

\* C2: the first timeout() that returns true after start() or restart()
\* comes only when the tick_since values read since then sum to at least
\* the threshold; a poll up to which they sum to less returns false.
C2_NoEarlyTimeout ==
    \A s \in Slots :
        (IsTick /\ st[s].live) =>
            /\ hist[s].fired >= 1 => hist[s].seen >= Threshold(s)
            /\ (out.op = "timeout" /\ out.s = s
                  /\ hist[s].seen < Threshold(s)) => ~out.ret

\* C2 witness: after a restart(), a poll that returned false and then the
\* first poll that returned true, with a threshold of at least 2 ticks.
C2_Witness ==
    /\ IsTick /\ st[S].live /\ hist[S].restarted
    /\ Threshold(S) >= 2 /\ hist[S].n >= 2 /\ hist[S].fired = 1
    /\ out.op = "timeout" /\ out.ret

\* The last operation was the first poll of a status object that was
\* started and not restarted, and the tick source reported 0 ticks.
FirstPollImmediately ==
    /\ out.op = "timeout" /\ IsTick
    /\ hist[out.s].polls = 1 /\ ~hist[out.s].restarted
    /\ out.ts = 0

\* C3 (as stated): a freshly started status object polled immediately
\* reports "not timed out", for every waiter that can be constructed.
C3_Original == FirstPollImmediately => ~out.ret

\* C3 (amended): a freshly started status object whose threshold is
\* positive, polled immediately, reports "not timed out".
C3_FreshNotTimedOut ==
    (FirstPollImmediately /\ Threshold(out.s) > 0) => ~out.ret

\* C3 witness: such a first poll of a TimedTickWaiter status object, made
\* after the clock had advanced before start().
C3_Witness ==
    /\ FirstPollImmediately /\ Threshold(out.s) > 0 /\ ~out.ret
    /\ waiter.kind = "TimedTickWaiter" /\ clock > 0

\* The step is a timeout() call on tick status object s.
TickPolled(s) ==
    IsTick /\ st[s].live /\ hist'[s].polls = hist[s].polls + 1

\* The accumulator of s plus the ticks a poll reads now, saturated at the
\* accumulator's width.
Accumulated(s) ==
    LET sum == st[s].elapsed_tick + TicksNow(s)
    IN  IF sum > MaxOf(Width) THEN MaxOf(Width) ELSE sum

\* C5 (as stated): once a tick status object has reported "timed out",
\* every later timeout() call reports "timed out" until restart().
C5_Original ==
    [][\A s \in Slots :
          (TickPolled(s) /\ hist[s].fired >= 1) => out'.ret]_vars

\* C5 (amended): once a tick status object has reported "timed out", a
\* later timeout() call (no restart() in between, no saturation) reports
\* "timed out" exactly when the ticks observed since start()/restart()
\* have reached one more whole threshold than the reports made so far.
C5_TimedOutAgain ==
    [][\A s \in Slots :
          (TickPolled(s) /\ hist[s].fired >= 1 /\ ~hist'[s].sat) =>
              (out'.ret <=>
                 hist'[s].seen >= (hist[s].fired + 1) * Threshold(s))]_vars

\* C5 witness: a poll that returned false after an earlier poll had
\* returned true, with no restart() in between.
C5_Witness ==
    /\ IsTick /\ st[S].live /\ hist[S].fired >= 1
    /\ out.op = "timeout" /\ ~out.ret

\* C7: a timeout() that returns true leaves the accumulator at (accumulator
\* before + ticks observed, saturated) minus one threshold; and after a
\* "timed out" report, a poll at which remainder plus new ticks reaches the
\* threshold returns true at once, carrying again the rest.
C7_OvershootKept ==
    [][\A s \in Slots :
          /\ (TickPolled(s) /\ out'.ret) =>
                st'[s].elapsed_tick = Accumulated(s) - Threshold(s)
          /\ (TickPolled(s) /\ hist[s].fired >= 1
                /\ Accumulated(s) >= Threshold(s)) =>
                (out'.ret /\
                 st'[s].elapsed_tick = Accumulated(s) - Threshold(s))]_vars

\* C7 witness: a second "timed out" report in a row that still carries a
\* positive remainder, with a positive threshold.
C7_Witness ==
    /\ IsTick /\ st[S].live /\ Threshold(S) > 0
    /\ hist[S].fired >= 2 /\ st[S].elapsed_tick > 0
    /\ out.op = "timeout" /\ out.ret

\* The last operation was the first poll of a tick status object after a
\* restart().
PolledAfterRestart ==
    /\ out.op = "timeout" /\ IsTick
    /\ hist[out.s].restarted /\ hist[out.s].n = 1

\* C8 (as stated): after restart() the very next timeout() returns "not
\* timed out", and the accumulator is zero right after restart().
C8_Original ==
    /\ PolledAfterRestart => ~out.ret
    /\ (out.op = "restart" /\ IsTick) => st[out.s].elapsed_tick = 0

\* C8 (amended): after restart() the accumulator is zero, and the very next
\* timeout() returns "not timed out" exactly when the ticks it observes
\* are fewer than the threshold.
C8_RestartFresh ==
    /\ PolledAfterRestart => (~out.ret <=> out.ts < Threshold(out.s))
    /\ (out.op = "restart" /\ IsTick) => st[out.s].elapsed_tick = 0

\* C8 witness: the first poll after a restart() that discarded a positive
\* accumulator returned false, ticks having elapsed since the restart().
C8_Witness ==
    /\ PolledAfterRestart /\ ~out.ret /\ out.ts > 0
    /\ hist[out.s].dropped > 0

\* C9: interval() runs once in a timeout() that returns false, not at all
\* in one that returns true nor in start() and restart(); the interval()
\* invocations made for a status object number its polls that returned
\* false.
C9_IntervalPerFalsePoll ==
    /\ (out.op = "timeout" /\ ~panicked) =>
          out.ivl = (IF out.ret THEN 0 ELSE 1)
    /\ out.op \in {"start", "restart"} => out.ivl = 0
    /\ \A s \in Slots : hist[s].ivls = hist[s].falses

\* C9 witness: a StdWaiter status object polled false and then true.
C9_Witness ==
    /\ waiter.kind = "StdWaiter" /\ hist[S].falses >= 1
    /\ out.op = "timeout" /\ out.ret

\* C10: a timeout() call on a tick status object never panics; the
\* accumulation saturates at the width's maximum, and the accumulator
\* afterwards is that sum, less the threshold when it timed out, and is
\* never negative.
C10_PollNeverFails ==
    [][\A s \in Slots :
          TickPolled(s) =>
              /\ ~panicked'
              /\ out'.ret \in BOOLEAN
              /\ st'[s].elapsed_tick =
                    (IF out'.ret THEN Accumulated(s) - Threshold(s)
                     ELSE Accumulated(s))
              /\ st'[s].elapsed_tick >= 0
              /\ st'[s].elapsed_tick <= MaxOf(Width)]_vars

\* C10 witness: a poll that read U32_MAX ticks and saturated the
\* accumulator.
C10_Witness ==
    /\ IsTick /\ st[S].live /\ hist[S].sat
    /\ out.op = "timeout" /\ out.ts = U32_MAX /\ ~panicked

\* The scenario's waiter (frequency 1 GHz, timeout 10 us, threshold 10_000
\* ticks), and the ticks read by the polls since start()/restart().
ScenarioWaiter ==
    waiter = TickWaiterOf("u32", 10 * KILO) /\ st[S].live

PollTicks(k, ticks) ==
    /\ Len(hist[S].log) >= k
    /\ \A i \in 1..k : hist[S].log[i].ts = ticks[i]

\* C6 (as stated, at a 10 us timeout): a poll after 1 us returns false, a
\* poll after 9 us more returns true, and a further poll with 0 more ticks
\* returns true.
C6_Original ==
    ScenarioWaiter =>
        /\ PollTicks(1, <<KILO>>) => ~hist[S].log[1].ret
        /\ PollTicks(2, <<KILO, 9 * KILO>>) => hist[S].log[2].ret
        /\ PollTicks(3, <<KILO, 9 * KILO, 0>>) => hist[S].log[3].ret

\* C6 (amended): a poll after 1 us returns false, a poll after 9 us more
\* returns true, and a further poll with 0 more ticks returns false.
C6_Scenario ==
    ScenarioWaiter =>
        /\ PollTicks(1, <<KILO>>) => ~hist[S].log[1].ret
        /\ PollTicks(2, <<KILO, 9 * KILO>>) => hist[S].log[2].ret
        /\ PollTicks(3, <<KILO, 9 * KILO, 0>>) => ~hist[S].log[3].ret

\* C6 witness: the three polls of the scenario have been made.
C6_Witness ==
    /\ ScenarioWaiter /\ PollTicks(3, <<KILO, 9 * KILO, 0>>)
    /\ hist[S].log[2].ret /\ st[S].elapsed_tick = 0

\* C4: a TickWaiter status object that is polled repeatedly while the tick
\* source advances eventually reports "timed out"; and a poll returns
\* false only while the accumulated ticks are below the threshold.
C4_EventuallyFires ==
    /\ (waiter.kind = "TickWaiter" /\ st[S].live)
          ~> (out.op = "timeout" /\ out.ret)
    /\ [](( /\ waiter.kind = "TickWaiter" /\ st[S].live
            /\ out.op = "timeout" /\ ~out.ret)
          => st[S].elapsed_tick < Threshold(S))

\* C4 witness: the report came after polls that returned false, the
\* accumulator having grown over several polls.
C4_Witness ==
    /\ waiter.kind = "TickWaiter" /\ st[S].live /\ Threshold(S) >= 3
    /\ out.op = "timeout" /\ out.ret /\ out.ts = 1

\* The frequency divisor a constructor asserts: 1_000 for ms, 1_000_000
\* for the others and for TimedTickWaiter::new.
Divisor(ctor) == IF ctor = "ms" THEN KILO ELSE MHZ

\* C11: a constructor (ns, us, ms, ns_u64, us_u64, TimedTickWaiter::new)
\* given a frequency that its divisor does not divide aborts, whatever the
\* duration: no waiter exists afterwards; and a waiter that exists was
\* given a frequency its divisor divides.
C11_IndivisibleAborts ==
    /\ (out.op = "new" /\ out.ctor \in Ctors \cup {"timed"}
          /\ out.f % Divisor(out.ctor) /= 0) =>
           (panicked /\ waiter = NoWaiter)
    /\ waiter.kind = "TimedTickWaiter" => waiter.frequency % MHZ = 0

\* C11 witness: ms at 1500 Hz with a positive duration has aborted.
C11_Witness ==
    /\ out.op = "new" /\ out.ctor = "ms" /\ out.f = 1500 /\ out.d > 0
    /\ panicked /\ waiter = NoWaiter

\* The width of the threshold a constructor stores.
CtorWidth(ctor) == IF ctor \in {"ns_u64", "us_u64"} THEN "u64" ELSE "u32"

\* Whether ceil(d * f / scale) is at most max; the quotient and the
\* remainder of d are scaled apart, so that no product exceeds what the
\* comparison needs.
ExactFits(d, f, scale, max) ==
    LET g   == GCD(scale, f)
        num == f \div g
        den == scale \div g
        q   == d \div den
        r   == d % den
    IN  IF num = 0 THEN TRUE
        ELSE /\ q <= max \div num
             /\ q * num + div_ceil(r * num, den) <= max

\* C12: a constructor, or TimedTickWaiter::start, whose exact threshold
\* ceil(duration * frequency / unit_scale) does not fit the destination
\* width aborts; one that returns stores exactly that threshold, never a
\* smaller (truncated or wrapped) one.
C12_OverflowAborts ==
    /\ (out.op = "new" /\ out.ctor \in Ctors) =>
          LET max == MaxOf(CtorWidth(out.ctor))
              fits == ExactFits(out.d, out.f, UnitScale(out.ctor), max)
          IN  /\ ~fits => (panicked /\ waiter = NoWaiter)
              /\ ~panicked =>
                   (/\ fits
                    /\ waiter.timeout_tick >=
                         CeilMulDiv(out.d, out.f, UnitScale(out.ctor))
                    /\ waiter.timeout_tick <= max)
    /\ (out.op = "start" /\ out.ctor = "timed") =>
          LET fits == ExactFits(out.d, waiter.frequency, MHZ, U32_MAX)
          IN  /\ ~fits => (panicked /\ ~st[out.s].live)
              /\ ~panicked =>
                   (/\ fits
                    /\ st[out.s].timeout_tick >=
                         CeilMulDiv(out.d, waiter.frequency, MHZ)
                    /\ st[out.s].timeout_tick <= U32_MAX)

\* C12 witness: ns of U32_MAX ns at 1001 MHz, whose product fits the wide
\* width but whose threshold exceeds the narrow one, has aborted.
C12_Witness ==
    /\ out.op = "new" /\ out.ctor = "ns" /\ out.d = U32_MAX
    /\ out.f = 1001 * MHZ /\ panicked /\ waiter = NoWaiter

\* The step is a timeout() call on StdWaiter status object s.
StdPolled(s) ==
    /\ waiter.kind = "StdWaiter" /\ st[s].live
    /\ hist'[s].polls = hist[s].polls + 1

\* The 500_000 us StdWaiter with the interval that sleeps 260_000 us has a
\* status object.
StdScenario ==
    /\ waiter = StdWaiter_new(StdScenarioTimeout)
    /\ interval = StdScenarioSleep /\ st[S].live

\* C13: a StdWaiter timeout() returns true exactly when the time elapsed
\* since start() or the last restart() is at least the timeout, so once it
\* has returned true it does so on every later poll until restart(); in
\* the 500_000 us scenario the polls since start() or restart() return
\* false, false, true, true, the last two without any more waiting.
C13_StdTimedOut ==
    /\ [][\A s \in Slots :
            StdPolled(s) =>
               /\ out'.ret <=> (clock - hist[s].at >= waiter.timeout_tick)
               /\ hist[s].fired >= 1 => out'.ret]_vars
    /\ [](StdScenario =>
            /\ \A i \in 1..Len(hist[S].log) :
                  hist[S].log[i].ret <=> (i >= 3)
            /\ hist[S].n >= 2 => clock = hist[S].at + 2 * StdScenarioSleep)

\* C13 witness: in the scenario, after a restart(), four polls have been
\* made, the clock standing two sleeps after the restart().
C13_Witness ==
    /\ StdScenario /\ hist[S].restarted /\ hist[S].n = 4
    /\ hist[S].log[4].ret /\ hist[S].fired = 2
    /\ clock = hist[S].at + 2 * StdScenarioSleep /\ hist[S].at > 0

\* C14: a status object obtained from TimedTickWaiter::start(d) and one
\* obtained from TickWaiter::us(d, .., frequency).start(), given the same
\* calls at the same instants, return the same poll results, make the same
\* interval() invocations and hold the same last-seen instant and
\* accumulator after every call; and start(d) aborts exactly when us(d)
\* aborts.
C14_TimedEqualsUs ==
    \A s \in Slots :
        LET h == hist[s] IN
        waiter.kind = "TimedTickWaiter" =>
            /\ (out.op = "start" /\ out.s = s) =>
                  (panicked <=> h.twinw = PanicWaiter)
            /\ st[s].live =>
                  /\ h.twinw = TickWaiterOf("u32", st[s].timeout_tick)
                  /\ h.twin.self.tick = st[s].tick
                  /\ h.twin.self.elapsed_tick = st[s].elapsed_tick
                  /\ h.twin.panic = panicked
                  /\ out.s = s =>
                        (h.twin.ret = out.ret /\ h.twin.ivl = out.ivl)

\* C14 witness: both status objects have returned false, then true with
\* the same positive remainder, at a frequency of 2 MHz.
C14_Witness ==
    /\ waiter.kind = "TimedTickWaiter" /\ waiter.frequency = 2 * MHZ
    /\ st[S].live /\ st[S].timeout_tick = 2
    /\ hist[S].falses >= 1 /\ out.op = "timeout" /\ out.ret
    /\ hist[S].twin.ret /\ hist[S].twin.self.elapsed_tick > 0
    /\ st[S].elapsed_tick = hist[S].twin.self.elapsed_tick

\* A delay_ns call is polling; it has returned.
DelayPolling == out.ctor = "delay_ns" /\ out.op \in {"delay_ns", "timeout"}

DelayReturned == out.ctor = "delay_ns" /\ out.op = "return"

\* C15: delay_ns(ns) returns only after the ticks observed by its polls
\* reach ceil(ns * frequency / 10^9), at the first poll that returns true;
\* while the tick source advances, a call that is polling returns.
C15_DelayCompletes ==
    /\ [](DelayReturned =>
            /\ hist[S].seen >= CeilMulDiv(out.d, out.f, MHZ * KILO)
            /\ out.ret /\ hist[S].fired = 1)
    /\ []((DelayPolling /\ ~panicked) =>
            /\ hist[S].fired = 0
            /\ hist[S].seen < CeilMulDiv(out.d, out.f, MHZ * KILO)
                 \/ out.op = "delay_ns")
    /\ (DelayPolling /\ ~panicked) ~> DelayReturned

\* C15 witness: delay_ns(1001) at 2 MHz, called after a long time, has
\* returned after polls that returned false, 3 ticks having been observed.
C15_Witness ==
    /\ DelayReturned /\ out.d = 1001 /\ out.f = 2 * MHZ
    /\ hist[S].seen = 3 /\ hist[S].polls >= 2 /\ hist[S].at > 0

\* The step is a timeout() or restart() call on status object s.
CalledOn(s) ==
    /\ st[s].live /\ out'.s = s
    /\ \/ hist'[s].polls = hist[s].polls + 1
       \/ out'.op = "restart" /\ hist'[s].n = 0 /\ hist'[s].restarted

\* C16: a timeout() or restart() call on one status object leaves the
\* waiter's configuration (threshold, frequency, interval) and the fields
\* of every other status object started from the same waiter unchanged,
\* and what the call returns and stores is what the handler computes from
\* the status object's own fields and the instant it reads.
C16_StatusIndependent ==
    [][\A s \in PairSlots :
          CalledOn(s) =>
             /\ waiter' = waiter /\ interval' = interval
             /\ \A t \in PairSlots \ {s} : st'[t] = st[t] /\ hist'[t] = hist[t]
             /\ hist'[s].polls = hist[s].polls + 1 =>
                   (st'[s] = TimeoutOf(s).self /\ out'.ret = TimeoutOf(s).ret)
       ]_vars

\* C16 witness: two live status objects of one tick waiter, started at
\* different instants, hold different accumulators after a poll of one
\* that followed a poll of the other.
C16_Witness ==
    \E s \in PairSlots : \E t \in PairSlots \ {s} :
        /\ IsTick /\ st[s].live /\ st[t].live
        /\ hist[s].at /= hist[t].at
        /\ hist[t].polls >= 1 /\ out.op = "timeout" /\ out.s = s
        /\ st[s].elapsed_tick /= st[t].elapsed_tick
        /\ st[s].tick /= st[t].tick

\* C17 (as stated): a timeout() call that returns false does not decrease
\* the accumulator, and after every timeout() call the accumulator is
\* strictly less than its previous value plus the ticks observed.
C17_Original ==
    [][\A s \in Slots :
          TickPolled(s) =>
             /\ ~out'.ret => st'[s].elapsed_tick >= st[s].elapsed_tick
             /\ st'[s].elapsed_tick < st[s].elapsed_tick + TicksNow(s)]_vars

\* C17 (amended): a timeout() call that returns false does not decrease
\* the accumulator, and after every timeout() call the accumulator is at
\* most its previous value plus the ticks observed: equal to it after a
\* call that returns false without saturating, and less by the threshold
\* after a call that returns true without saturating.
C17_AccumulatorBound ==
    [][\A s \in Slots :
          TickPolled(s) =>
             LET sum == st[s].elapsed_tick + TicksNow(s)
                 sat == sum > MaxOf(Width)
             IN  /\ ~out'.ret => st'[s].elapsed_tick >= st[s].elapsed_tick
                 /\ st'[s].elapsed_tick <= sum
                 /\ (~out'.ret /\ ~sat) => st'[s].elapsed_tick = sum
                 /\ (out'.ret /\ ~sat) =>
                       st'[s].elapsed_tick = sum - Threshold(s)]_vars

\* C17 witness: two polls in a row have returned false, the second having
\* observed ticks and left the accumulator at their sum.
C17_Witness ==
    /\ IsTick /\ st[S].live /\ hist[S].n >= 2 /\ hist[S].fired = 0
    /\ out.op = "timeout" /\ ~out.ret /\ out.ts > 0
    /\ st[S].elapsed_tick = hist[S].seen /\ hist[S].seen > out.ts

\* C18 (as stated): the ticks a poll reads from the std Instant tick
\* source are the nanoseconds elapsed since the last-seen instant,
\* saturated at the narrow width's maximum: min(elapsed, U32_MAX).
C18_TickSinceSaturates ==
    [][\A s \in Slots :
          TickPolled(s) =>
             LET elapsed == clock - st[s].tick
             IN  out'.ts = (IF elapsed > U32_MAX THEN U32_MAX ELSE elapsed)
       ]_vars

\* C19: for a tick status object with a positive threshold, as long as no
\* accumulation has saturated since start() or the last restart(), the
\* polls that returned true times the threshold, plus the accumulator,
\* equal the sum of the tick_since values those polls observed; so the true
\* reports number at most floor(observed ticks / threshold).
C19_TicksConserved ==
    \A s \in Slots :
        (IsTick /\ st[s].live /\ Threshold(s) > 0 /\ ~hist[s].sat) =>
            /\ hist[s].fired * Threshold(s) + st[s].elapsed_tick
                 = hist[s].seen
            /\ hist[s].fired <= hist[s].seen \div Threshold(s)

\* C19 witness: after a restart(), polls that returned false, true and
\* true, with a threshold of 1 tick and a remainder in the accumulator.
C19_Witness ==
    /\ IsTick /\ st[S].live /\ Threshold(S) = 1 /\ ~hist[S].sat
    /\ hist[S].restarted /\ hist[S].n = 3 /\ hist[S].fired = 2
    /\ st[S].elapsed_tick = 1 /\ hist[S].seen = 3

\* C20: a tick status object whose threshold is 0 returns true from every
\* timeout() call, the first after start() or restart() included, and
\* interval() is never invoked for it; a delay_ns call whose local waiter
\* has threshold 0 returns after a single poll.
C20_ZeroThreshold ==
    /\ \A s \in Slots :
          (IsTick /\ st[s].live /\ Threshold(s) = 0) =>
             /\ hist[s].fired = hist[s].n
             /\ hist[s].falses = 0 /\ hist[s].ivls = 0
             /\ (out.op = "timeout" /\ out.s = s) =>
                   (out.ret /\ out.ivl = 0 /\ ~panicked)
    /\ (out.ctor = "delay_ns" /\ out.op \in {"timeout", "return"}
          /\ waiter.timeout_tick = 0) =>
             /\ out.op = "return" /\ out.ret
             /\ hist[S].polls = 1 /\ hist[S].ivls = 0

\* C20 witness: delay_ns(0) at 2 MHz has returned after one poll.
C20_Witness ==
    /\ DelayReturned /\ out.d = 0 /\ out.f = 2 * MHZ
    /\ hist[S].polls = 1 /\ hist[S].fired = 1

====
